---- MODULE Spec2Model ----
(***************************************************************************)
(* Model of the synthetic data-generation engine of generate_data.py:      *)
(* the Calendar Builder (generate_date_dimension), the Seasonal Demand     *)
(* Model and Transaction Synthesizer with its batch sink                   *)
(* (generate_sales_data), run by the __main__ block against an sqlite3     *)
(* connection.                                                             *)
(*                                                                         *)
(* Python floats are IEEE-754 binary64.  TLC integers are 32 bits wide, so *)
(* a float is kept as sign * man * 2^exp with man a 53-bit natural held as *)
(* a little-endian sequence of 15-bit limbs; every operation rounds to     *)
(* nearest, ties to even, as the hardware does.                            *)
(***************************************************************************)
EXTENDS Integers, Sequences, FiniteSets, TLC

(***************************************************************************)
(* Naturals of arbitrary size: little-endian limbs, no high zero limb.     *)
(***************************************************************************)
RECURSIVE Pow2(_)
Pow2(k) == IF k = 0 THEN 1 ELSE 2 * Pow2(k - 1)

\* the mantissa width of binary64
MantBits == 53

LimbBits == (MantBits + 7) \div 4

LimbBase == Pow2(LimbBits)

\* guard bits kept when a decimal literal is converted
LitGuard == MantBits + 17

RECURSIVE BigNorm(_)
BigNorm(a) ==
    IF a = <<>> THEN <<>>
    ELSE IF a[Len(a)] = 0 THEN BigNorm(SubSeq(a, 1, Len(a) - 1))
    ELSE a

RECURSIVE BigFromInt(_)
BigFromInt(n) ==
    IF n = 0 THEN <<>>
    ELSE <<n % LimbBase>> \o BigFromInt(n \div LimbBase)

RECURSIVE BigToInt(_)
BigToInt(a) ==
    IF a = <<>> THEN 0
    ELSE a[1] + LimbBase * BigToInt(Tail(a))

RECURSIVE BigAddC(_, _, _)
BigAddC(a, b, c) ==
    IF a = <<>> /\ b = <<>> THEN (IF c = 0 THEN <<>> ELSE <<c>>)
    ELSE LET x == IF a = <<>> THEN 0 ELSE Head(a)
             y == IF b = <<>> THEN 0 ELSE Head(b)
             s == x + y + c
         IN  <<s % LimbBase>> \o
             BigAddC(IF a = <<>> THEN <<>> ELSE Tail(a),
                     IF b = <<>> THEN <<>> ELSE Tail(b),
                     s \div LimbBase)

BigAdd(a, b) == BigAddC(a, b, 0)

\* a - b for a >= b
RECURSIVE BigSubB(_, _, _)
BigSubB(a, b, br) ==
    IF a = <<>> THEN <<>>
    ELSE LET y == IF b = <<>> THEN 0 ELSE Head(b)
             d == Head(a) - y - br
         IN  <<IF d < 0 THEN d + LimbBase ELSE d>> \o
             BigSubB(Tail(a), IF b = <<>> THEN <<>> ELSE Tail(b),
                     IF d < 0 THEN 1 ELSE 0)

BigSub(a, b) == BigNorm(BigSubB(a, b, 0))

\* -1, 0, 1 as a < b, a = b, a > b (both normalised)
RECURSIVE BigCmpTop(_, _, _)
BigCmpTop(a, b, i) ==
    IF i = 0 THEN 0
    ELSE IF a[i] < b[i] THEN -1
    ELSE IF a[i] > b[i] THEN 1
    ELSE BigCmpTop(a, b, i - 1)

BigCmp(a, b) ==
    IF Len(a) < Len(b) THEN -1
    ELSE IF Len(a) > Len(b) THEN 1
    ELSE BigCmpTop(a, b, Len(a))

\* a * k for 0 <= k <= LimbBase
RECURSIVE BigMulSmallC(_, _, _)
BigMulSmallC(a, k, c) ==
    IF a = <<>> THEN (IF c = 0 THEN <<>> ELSE BigFromInt(c))
    ELSE LET p == Head(a) * k + c
         IN  <<p % LimbBase>> \o BigMulSmallC(Tail(a), k, p \div LimbBase)

BigMulSmall(a, k) == BigNorm(BigMulSmallC(a, k, 0))

RECURSIVE BigMul(_, _)
BigMul(a, b) ==
    IF b = <<>> \/ a = <<>> THEN <<>>
    ELSE BigAdd(BigMulSmall(a, Head(b)),
                LET r == BigMul(a, Tail(b))
                IN  IF r = <<>> THEN <<>> ELSE <<0>> \o r)

\* quotient and remainder of a by 1 <= d <= LimbBase, from the high limb down
RECURSIVE BigDivSmallR(_, _, _, _)
BigDivSmallR(a, d, i, r) ==
    IF i = 0 THEN [q |-> <<>>, r |-> r]
    ELSE LET cur  == r * LimbBase + a[i]
             rest == BigDivSmallR(a, d, i - 1, cur % d)
         IN  [q |-> rest.q \o <<cur \div d>>, r |-> rest.r]

BigDivSmall(a, d) ==
    LET res == BigDivSmallR(a, d, Len(a), 0)
    IN  [q |-> BigNorm(res.q), r |-> res.r]

RECURSIVE Zeros(_)
Zeros(n) == IF n = 0 THEN <<>> ELSE <<0>> \o Zeros(n - 1)

\* a * 2^k
BigShl(a, k) ==
    IF a = <<>> THEN <<>>
    ELSE Zeros(k \div LimbBits) \o BigMulSmall(a, Pow2(k % LimbBits))

\* floor(a / 2^k)
BigShr(a, k) ==
    LET drop == k \div LimbBits
    IN  IF drop >= Len(a) THEN <<>>
        ELSE BigDivSmall(SubSeq(a, drop + 1, Len(a)), Pow2(k % LimbBits)).q

RECURSIVE BitLenSmall(_)
BitLenSmall(n) == IF n = 0 THEN 0 ELSE 1 + BitLenSmall(n \div 2)

BitLen(a) ==
    IF a = <<>> THEN 0
    ELSE LimbBits * (Len(a) - 1) + BitLenSmall(a[Len(a)])

BigOdd(a) == a # <<>> /\ a[1] % 2 = 1

(***************************************************************************)
(* binary64 values and the operations the generator applies to them.       *)
(* Exponents stay far from the subnormal and overflow ranges.              *)
(***************************************************************************)
FZero == [sign |-> 1, man |-> <<>>, exp |-> 0]

\* sign * m * 2^e rounded to 53 bits, nearest, ties to even
Round53(sign, m, e) ==
    LET n == BitLen(m)
    IN  IF n = 0 THEN FZero
        ELSE IF n <= MantBits
        THEN [sign |-> sign, man |-> BigShl(m, MantBits - n),
              exp |-> e - (MantBits - n)]
        ELSE LET k    == n - MantBits
                 q    == BigShr(m, k)
                 rem  == BigSub(m, BigShl(q, k))
                 half == BigShl(<<1>>, k - 1)
                 c    == BigCmp(rem, half)
                 up   == c > 0 \/ (c = 0 /\ BigOdd(q))
                 q2   == IF up THEN BigAdd(q, <<1>>) ELSE q
             IN  IF BitLen(q2) > MantBits
                 THEN [sign |-> sign, man |-> BigShr(q2, 1), exp |-> e + k + 1]
                 ELSE [sign |-> sign, man |-> q2, exp |-> e + k]

\* float(n) of a Python int
FromInt(n) ==
    IF n < 0 THEN Round53(-1, BigFromInt(-n), 0)
    ELSE Round53(1, BigFromInt(n), 0)

\* the float a decimal literal num/den denotes (num >= 0, den a power of ten)
Lit(num, den) ==
    LET d == BigDivSmall(BigShl(BigFromInt(num), LitGuard), den)
        m == BigAdd(BigMulSmall(d.q, 2), IF d.r = 0 THEN <<>> ELSE <<1>>)
    IN  Round53(1, m, 0 - LitGuard - 1)

FMul(x, y) == Round53(x.sign * y.sign, BigMul(x.man, y.man), x.exp + y.exp)

FAdd(x, y) ==
    IF x.man = <<>> THEN y
    ELSE IF y.man = <<>> THEN x
    ELSE LET e  == IF x.exp < y.exp THEN x.exp ELSE y.exp
             mx == BigShl(x.man, x.exp - e)
             my == BigShl(y.man, y.exp - e)
         IN  IF x.sign = y.sign THEN Round53(x.sign, BigAdd(mx, my), e)
             ELSE IF BigCmp(mx, my) >= 0 THEN Round53(x.sign, BigSub(mx, my), e)
             ELSE Round53(y.sign, BigSub(my, mx), e)

FNeg(x) == IF x.man = <<>> THEN x ELSE [x EXCEPT !.sign = 0 - x.sign]

FSub(x, y) == FAdd(x, FNeg(y))

\* int(x): truncation toward zero
FTrunc(x) ==
    IF x.exp >= 0 THEN x.sign * BigToInt(BigShl(x.man, x.exp))
    ELSE x.sign * BigToInt(BigShr(x.man, 0 - x.exp))

(***************************************************************************)
(* Calendar arithmetic of datetime: proleptic Gregorian ordinals,          *)
(* weekday(), timedelta(days=1), and the ISO text sqlite3 stores a date as *)
(* (kept as the number YYYYMMDD its digits spell).                         *)
(***************************************************************************)
IsLeap(y) == y % 4 = 0 /\ (y % 100 # 0 \/ y % 400 = 0)

DaysInMonth(y, m) ==
    IF m = 2 THEN (IF IsLeap(y) THEN 29 ELSE 28)
    ELSE IF m \in {4, 6, 9, 11} THEN 30
    ELSE 31

DaysBeforeYear(y) ==
    LET p == y - 1
    IN  p * 365 + p \div 4 - p \div 100 + p \div 400

RECURSIVE DaysBeforeMonth(_, _)
DaysBeforeMonth(y, m) ==
    IF m = 1 THEN 0
    ELSE DaysBeforeMonth(y, m - 1) + DaysInMonth(y, m - 1)

ToOrdinal(d) == DaysBeforeYear(d.year) + DaysBeforeMonth(d.year, d.month) + d.day

\* faulty variant: the Sunday-first numbering of isoweekday() % 7
WeekdaySundayFirst(d) == ToOrdinal(d) % 7

\* datetime.weekday(): Monday is 0
Weekday(d) == (ToOrdinal(d) + 6) % 7

\* d + timedelta(days=1)
NextDay(d) ==
    IF d.day < DaysInMonth(d.year, d.month)
    THEN [d EXCEPT !.day = d.day + 1]
    ELSE IF d.month < 12
    THEN [year |-> d.year, month |-> d.month + 1, day |-> 1]
    ELSE [year |-> d.year + 1, month |-> 1, day |-> 1]

\* faulty variant: the loop test written current_date < end_date
DateLT(a, b) ==
    \/ a.year < b.year
    \/ a.year = b.year /\ a.month < b.month
    \/ a.year = b.year /\ a.month = b.month /\ a.day < b.day

\* current_date <= end_date
DateLE(a, b) ==
    \/ a.year < b.year
    \/ a.year = b.year /\ a.month < b.month
    \/ a.year = b.year /\ a.month = b.month /\ a.day <= b.day

\* the date adapter: date.isoformat()
FormatDate(d) == d.year * 10000 + d.month * 100 + d.day

\* the DATE converter of PARSE_DECLTYPES
ParseDate(t) ==
    [year |-> t \div 10000, month |-> (t \div 100) % 100, day |-> t % 100]

\* faulty variant: December left out of the first test
SeasonDecemberFall(month) ==
    IF month \in {1, 2} THEN "Winter"
    ELSE IF month \in {3, 4, 5} THEN "Spring"
    ELSE IF month \in {6, 7, 8} THEN "Summer"
    ELSE "Fall"

Season(month) ==
    IF month \in {12, 1, 2} THEN "Winter"
    ELSE IF month \in {3, 4, 5} THEN "Spring"
    ELSE IF month \in {6, 7, 8} THEN "Summer"
    ELSE "Fall"

Quarter(month) == (month - 1) \div 3 + 1

\* the row generate_date_dimension inserts for current_date
DateRow(id, d) ==
    [date_id     |-> id,
     full_date   |-> FormatDate(d),
     year        |-> d.year,
     month       |-> d.month,
     day         |-> d.day,
     day_of_week |-> Weekday(d),
     quarter     |-> Quarter(d.month),
     season      |-> Season(d.month)]

(***************************************************************************)
(* Seasonal Demand Model: the float arithmetic of generate_sales_data.     *)
(***************************************************************************)
F1_0 == Lit(10, 10)

F1_5 == Lit(15, 10)

F1_3 == Lit(13, 10)

F1_2 == Lit(12, 10)

F0_1 == Lit(1, 10)

F0_2 == Lit(2, 10)

AnchorYear == 2015

\* faulty variant: the December factor typed 0.5
seasonal_multiplier_half(month, day_of_week) ==
    LET s == IF month \in {12} THEN FMul(F1_0, Lit(5, 10))
             ELSE IF month \in {1} THEN FMul(F1_0, F1_3)
             ELSE IF month \in {6, 7, 8} THEN FMul(F1_0, F1_2)
             ELSE F1_0
    IN  IF day_of_week \in {5, 6} THEN FMul(s, F1_2) ELSE s

seasonal_multiplier(month, day_of_week) ==
    LET s == IF month \in {12} THEN FMul(F1_0, F1_5)
             ELSE IF month \in {1} THEN FMul(F1_0, F1_3)
             ELSE IF month \in {6, 7, 8} THEN FMul(F1_0, F1_2)
             ELSE F1_0
    IN  IF day_of_week \in {5, 6} THEN FMul(s, F1_2) ELSE s

\* faulty variant: ten per cent less for every year after the anchor
yoy_growth_decline(year) ==
    FSub(F1_0, FMul(F0_1, FromInt(year - AnchorYear)))

yoy_growth(year) == FAdd(F1_0, FMul(F0_1, FromInt(year - AnchorYear)))

\* final_quantity, the demand ceiling of a (date, product) pair
DemandCeiling(base_quantity, month, day_of_week, year) ==
    FTrunc(FMul(FMul(FromInt(base_quantity),
                     seasonal_multiplier(month, day_of_week)),
                yoy_growth(year)))

(***************************************************************************)
(* Configuration and bounds.                                               *)
(***************************************************************************)
\* start_date and end_date of the reference calendar
ReferenceStart == [year |-> 2015, month |-> 1, day |-> 1]

ReferenceEnd == [year |-> 2024, month |-> 12, day |-> 31]

\* the pipeline is explored on sub-ranges of the reference calendar of at
\* most MaxDays days, starting at one of these dates
MaxDays == 2

WindowStarts ==
    {ReferenceStart, [year |-> 2019, month |-> 12, day |-> 28]}

\* rows of dimension_products present at start: a prefix of the catalogue
MaxProducts == 2

\* base prices of the catalogue, in cents
CataloguePrices ==
    <<12999, 3999, 3499, 6499, 4499, 8999, 1499, 5999, 2499, 14999>>

\* executions of the program (or calls of generate_date_dimension)
MaxRuns == 2

\* reference: 1000 rows per flush
batch_size == 2

\* random draws: how many draws may return something else than the lower
\* bound of their range or the first element of their list
MaxFreeDraws == 1

BaseQuantityLow == 10

BaseQuantityHigh == 50

\* base quantities tried between the ends of randint(10, 50)
BaseQuantitySamples == {25}

\* faulty variant: a fifth region in the list
regionsWithCentral == <<"North", "South", "East", "West", "Central">>

regions == <<"North", "South", "East", "West">>

channels == <<"online", "store">>

discounts == <<FZero, FZero, FZero, F0_1, F0_2>>

NoTx == [open |-> FALSE]

\* a calendar row left by an earlier configuration, before the anchor year
StaleDate == [year |-> 2006, month |-> 3, day |-> 15]

NoProbe == [done |-> FALSE, base_quantity |-> 0, month |-> 0,
            day_of_week |-> 0, year |-> 0, ceiling |-> 0]

VARIABLES
    db_exists,          \* Path(DB_FILE).exists()
    dimension_products, \* committed rows
    dimension_dates,    \* committed rows
    fact_daily_sales,   \* committed rows
    date_seq,           \* last date_id the store assigned (committed)
    tx,                 \* the connection's uncommitted view, or NoTx
    pc,                 \* statement the program is at
    runs,               \* executions started so far
    start_date,
    end_date,
    current_date,       \* generate_date_dimension
    dates,              \* generate_sales_data: rows fetched
    products,
    di,                 \* position of the for loops
    pi,
    base_quantity,
    final_quantity,
    txns_left,          \* iterations left of the inner range()
    batch_data,
    total_records,
    printed,            \* messages of the current execution
    free_draws,         \* arbitrary draws left
    emitted,            \* history: records appended in the current run
    flushes,            \* history: sizes of the batches the run committed
    probe,              \* one evaluation of the demand model
    validation_results, \* TemplateValidator.validation_results
    templates,          \* TemplateBuilder.templates
    calls               \* calls made on a validator used on its own

vars == <<db_exists, dimension_products, dimension_dates, fact_daily_sales,
          date_seq, tx, pc, runs, start_date, end_date, current_date, dates,
          products, di, pi, base_quantity, final_quantity, txns_left,
          batch_data, total_records, printed, free_draws, emitted, flushes,
          probe, validation_results, templates, calls>>

storage == <<db_exists, dimension_products, dimension_dates,
             fact_daily_sales, date_seq>>

config == <<start_date, end_date>>

gdd_locals == <<current_date>>

gsd_locals == <<dates, products, di, pi, base_quantity, final_quantity,
                txns_left, batch_data, total_records, emitted, flushes>>

template_state == <<validation_results, templates, calls>>

(***************************************************************************)
(* The store as the sqlite3 connection sees it.  A DELETE or INSERT opens  *)
(* a transaction implicitly; commit() makes its view the committed one;    *)
(* close() discards a view that was not committed.                         *)
(***************************************************************************)
View ==
    IF tx.open THEN tx
    ELSE [open |-> TRUE, dates |-> dimension_dates,
          sales |-> fact_daily_sales, seq |-> date_seq]

Commit ==
    /\ dimension_dates' = View.dates
    /\ fact_daily_sales' = View.sales
    /\ date_seq' = View.seq
    /\ tx' = NoTx
    /\ UNCHANGED <<db_exists, dimension_products>>

\* faulty variant: close() commits the open transaction
CloseCommits == Commit

\* conn.close() with or without an open transaction
Close ==
    /\ tx' = NoTx
    /\ UNCHANGED storage

ProductRow(i) == [product_id |-> i, base_price |-> Lit(CataloguePrices[i], 100)]

RECURSIVE AddDays(_, _)
AddDays(d, n) == IF n = 0 THEN d ELSE AddDays(NextDay(d), n - 1)

Windows ==
    {w \in [start : WindowStarts, len : 1..MaxDays] :
        DateLE(AddDays(w.start, w.len - 1), ReferenceEnd)}

StaleDateRow == DateRow(1, StaleDate)

StaleSaleRow ==
    [product_id |-> 1, date_id |-> 1, quantity |-> 1,
     unit_price |-> ProductRow(1).base_price,
     total_price |-> ProductRow(1).base_price,
     discount |-> FZero, channel |-> channels[1], region |-> regions[1]]

\* TemplateBuilder.create_*_dashboard, in the order main() calls them
Dashboards == <<"sales_dashboard", "product_dashboard", "regional_dashboard">>

\* a key that self.templates does not hold
NoTemplate == [created |-> FALSE]

\* TemplateValidator.__init__
NewValidationResults ==
    [data_source |-> <<>>, calculations |-> <<>>, performance |-> <<>>,
     errors |-> <<>>]

\* TemplateBuilder.__init__: a validator of its own and no template
NewBuilder ==
    /\ validation_results = NewValidationResults
    /\ templates = [n \in {Dashboards[i] : i \in 1..Len(Dashboards)} |->
                        NoTemplate]
    /\ calls = 0

\* locals of a function that is not running
IdleLocals ==
    /\ current_date = ReferenceStart
    /\ dates = <<>>
    /\ products = <<>>
    /\ di = 0
    /\ pi = 0
    /\ base_quantity = 0
    /\ final_quantity = 0
    /\ txns_left = 0
    /\ batch_data = <<>>
    /\ total_records = 0
    /\ emitted = <<>>
    /\ flushes = <<>>

\* the database file before the program runs: nprod products and either
\* empty tables or rows left by an earlier configuration (a sale only when
\* the product it refers to exists)
InitStore(nprod, stale) ==
    /\ dimension_products = [i \in 1..nprod |-> ProductRow(i)]
    /\ dimension_dates = IF stale THEN <<StaleDateRow>> ELSE <<>>
    /\ fact_daily_sales = IF stale /\ nprod > 0 THEN <<StaleSaleRow>> ELSE <<>>
    /\ date_seq = IF stale THEN 1 ELSE 0
    /\ tx = NoTx

\* the program about to run on a sub-range of the calendar
Init ==
    /\ db_exists \in BOOLEAN
    /\ \E nprod \in 0..MaxProducts, stale \in BOOLEAN : InitStore(nprod, stale)
    /\ \E w \in Windows :
          /\ start_date = w.start
          /\ end_date = AddDays(w.start, w.len - 1)
    /\ pc = "main"
    /\ runs = 1
    /\ IdleLocals
    /\ printed = {}
    /\ free_draws = MaxFreeDraws
    /\ probe = NoProbe
    /\ NewBuilder

(***************************************************************************)
(* generate_date_dimension                                                 *)
(***************************************************************************)
GddConnect ==
    /\ pc = "gdd_connect"
    /\ pc' = "gdd_delete"
    /\ UNCHANGED <<storage, tx, runs, config, gdd_locals, gsd_locals,
                   printed, free_draws, probe, template_state>>

\* faulty variant: no DELETE, the inserts add to what is there
KeepDates(view) == view

\* DELETE FROM dimension_dates
ClearDates(view) == [view EXCEPT !.dates = <<>>]

\* the DELETE; current_date = start_date
GddDelete ==
    /\ pc = "gdd_delete"
    /\ tx' = ClearDates(View)
    /\ current_date' = start_date
    /\ pc' = "gdd_loop"
    /\ UNCHANGED <<storage, runs, config, gsd_locals, printed, free_draws, probe, template_state>>

\* one iteration of the while loop
GddInsert ==
    /\ pc = "gdd_loop"
    /\ DateLE(current_date, end_date)
    /\ tx' = [tx EXCEPT !.dates = Append(@, DateRow(tx.seq + 1, current_date)),
                        !.seq = @ + 1]
    /\ current_date' = NextDay(current_date)
    /\ UNCHANGED <<storage, pc, runs, config, gsd_locals, printed,
                   free_draws, probe, template_state>>

\* loop exit, conn.commit(), the success message, conn.close()
GddCommit ==
    /\ pc = "gdd_loop"
    /\ ~DateLE(current_date, end_date)
    /\ Commit
    /\ printed' = printed \cup {"Date dimension generated successfully"}
    /\ current_date' = ReferenceStart
    /\ pc' = "gdd_return"
    /\ UNCHANGED <<runs, config, gsd_locals, free_draws, probe, template_state>>

\* faulty variant: the handler commits the rows inserted so far
GddFailCommits ==
    /\ pc \in {"gdd_delete", "gdd_loop"}
    /\ Commit
    /\ printed' = printed \cup {"Error generating date dimension"}
    /\ current_date' = ReferenceStart
    /\ pc' = "gdd_return"
    /\ UNCHANGED <<runs, config, gsd_locals, free_draws, probe, template_state>>

\* a statement on the connection raises: except prints, finally closes
GddFail ==
    /\ pc \in {"gdd_delete", "gdd_loop"}
    /\ Close
    /\ printed' = printed \cup {"Error generating date dimension"}
    /\ current_date' = ReferenceStart
    /\ pc' = "gdd_return"
    /\ UNCHANGED <<runs, config, gsd_locals, free_draws, probe, template_state>>

\* get_db_connection() raises: conn is unbound in finally, which raises again
GddConnectFail ==
    /\ pc = "gdd_connect"
    /\ printed' = printed \cup {"Error generating date dimension"}
    /\ pc' = "crashed"
    /\ UNCHANGED <<storage, tx, runs, config, gdd_locals, gsd_locals,
                   free_draws, probe, template_state>>

(***************************************************************************)
(* generate_sales_data                                                     *)
(***************************************************************************)
\* random.randint(a, b): the ends of the range and any sample points in it
RandInt(a, b, samples) == {a, b} \cup {x \in samples : a <= x /\ x <= b}

\* random.choice(list): a position of the list
RandChoice(list) == 1..Len(list)

\* random.randint(10, 50)
BaseQuantities ==
    RandInt(BaseQuantityLow, BaseQuantityHigh, BaseQuantitySamples)

\* faulty variant: range(random.randint(1, 4))
TxnCountsUpTo4 == {1, 2, 4}

\* range(random.randint(1, 3))
TxnCounts == RandInt(1, 3, {2})

\* a draw other than the first outcome uses up one of the free draws
Cost(x, first) == IF x = first THEN 0 ELSE 1

\* faulty variant: the discount taken as the fraction to pay
UnitPriceOfDiscount(base_price, discount) == FMul(base_price, discount)

\* unit_price = base_price * (1 - discount)
UnitPrice(base_price, discount) == FMul(base_price, FSub(FromInt(1), discount))

\* total_price = unit_price * quantity
TotalPrice(unit_price, quantity) == FMul(unit_price, FromInt(quantity))

\* the tuple appended to batch_data
SaleRow(product_id, date_id, quantity, unit_price, total_price, discount, channel, region) ==
    [product_id  |-> product_id,
     date_id     |-> date_id,
     quantity    |-> quantity,
     unit_price  |-> unit_price,
     total_price |-> total_price,
     discount    |-> discount,
     channel     |-> channel,
     region      |-> region]

\* SELECT date_id, full_date, month, day_of_week FROM dimension_dates
FetchDates(rows) ==
    [i \in 1..Len(rows) |->
        [date_id     |-> rows[i].date_id,
         full_date   |-> ParseDate(rows[i].full_date),
         month       |-> rows[i].month,
         day_of_week |-> rows[i].day_of_week]]

NoMorePairs == di > Len(dates) \/ products = <<>>

NextDi == IF pi < Len(products) THEN di ELSE di + 1

NextPi == IF pi < Len(products) THEN pi + 1 ELSE 1

\* the locals are gone when the function returns
GsdReturn ==
    /\ dates' = <<>>
    /\ products' = <<>>
    /\ di' = 0
    /\ pi' = 0
    /\ base_quantity' = 0
    /\ final_quantity' = 0
    /\ txns_left' = 0
    /\ batch_data' = <<>>
    /\ pc' = "gsd_return"

GsdConnect ==
    /\ pc = "gsd_connect"
    /\ pc' = "gsd_read"
    /\ UNCHANGED <<storage, tx, runs, config, gdd_locals, gsd_locals,
                   printed, free_draws, probe, template_state>>

\* faulty variant: the DELETE FROM fact_daily_sales is left out
GsdReadNoDelete ==
    /\ pc = "gsd_read"
    /\ tx' = View
    /\ dates' = FetchDates(View.dates)
    /\ products' = dimension_products
    /\ total_records' = 0
    /\ batch_data' = <<>>
    /\ di' = 1
    /\ pi' = 1
    /\ pc' = "gsd_pair"
    /\ UNCHANGED <<storage, runs, config, gdd_locals, base_quantity,
                   final_quantity, txns_left, emitted, flushes, printed,
                   free_draws, probe, template_state>>

\* DELETE FROM fact_daily_sales, the two SELECTs, the initialisations
GsdRead ==
    /\ pc = "gsd_read"
    /\ tx' = [View EXCEPT !.sales = <<>>]
    /\ dates' = FetchDates(View.dates)
    /\ products' = dimension_products
    /\ total_records' = 0
    /\ batch_data' = <<>>
    /\ di' = 1
    /\ pi' = 1
    /\ pc' = "gsd_pair"
    /\ UNCHANGED <<storage, runs, config, gdd_locals, base_quantity,
                   final_quantity, txns_left, emitted, flushes, printed,
                   free_draws, probe, template_state>>

\* head of the product loop: base_quantity, final_quantity, range(randint(1, 3))
GsdPair ==
    /\ pc = "gsd_pair"
    /\ ~NoMorePairs
    /\ \E bq \in BaseQuantities, n \in TxnCounts :
          /\ Cost(bq, BaseQuantityLow) + Cost(n, 1) <= free_draws
          /\ free_draws' = free_draws - Cost(bq, BaseQuantityLow) - Cost(n, 1)
          /\ base_quantity' = bq
          /\ final_quantity' =
                DemandCeiling(bq, dates[di].month, dates[di].day_of_week,
                              dates[di].full_date.year)
          /\ txns_left' = n
    /\ pc' = "gsd_txn"
    /\ UNCHANGED <<storage, tx, runs, config, gdd_locals, dates, products, di,
                   pi, batch_data, total_records, emitted, flushes, printed,
                   probe, template_state>>

\* faulty variant: the flush test written len(batch_data) > batch_size
GsdEmitLateFlush ==
    /\ pc = "gsd_txn"
    /\ final_quantity >= 1
    /\ \E quantity \in RandInt(1, final_quantity, {}),
          d \in RandChoice(discounts),
          c \in RandChoice(channels),
          r \in RandChoice(regions) :
          LET cost        == Cost(quantity, 1) + Cost(d, 1) + Cost(c, 1) + Cost(r, 1)
              unit_price  == UnitPrice(products[pi].base_price, discounts[d])
              total_price == TotalPrice(unit_price, quantity)
              row == SaleRow(products[pi].product_id, dates[di].date_id,
                             quantity, unit_price, total_price, discounts[d],
                             channels[c], regions[r])
          IN  /\ cost <= free_draws
              /\ free_draws' = free_draws - cost
              /\ batch_data' = Append(batch_data, row)
              /\ emitted' = Append(emitted,
                     [row |-> row, base_quantity |-> base_quantity,
                      final_quantity |-> final_quantity])
    /\ total_records' = total_records + 1
    /\ txns_left' = txns_left - 1
    /\ LET flush == Len(batch_data) + 1 > batch_size
           last  == txns_left = 1
       IN  /\ pc' = IF flush THEN "gsd_flush"
                    ELSE IF last THEN "gsd_pair" ELSE "gsd_txn"
           /\ di' = IF ~flush /\ last THEN NextDi ELSE di
           /\ pi' = IF ~flush /\ last THEN NextPi ELSE pi
    /\ UNCHANGED <<storage, tx, runs, config, gdd_locals, dates, products,
                   base_quantity, final_quantity, flushes, printed, probe, template_state>>

\* faulty variant: base_quantity and the ceiling are drawn again after every
\* transaction
GsdEmitRedraw ==
    /\ pc = "gsd_txn"
    /\ final_quantity >= 1
    /\ \E quantity \in RandInt(1, final_quantity, {}),
          d \in RandChoice(discounts),
          c \in RandChoice(channels),
          r \in RandChoice(regions),
          bq \in BaseQuantities :
          LET cost        == Cost(quantity, 1) + Cost(d, 1) + Cost(c, 1) + Cost(r, 1)
              unit_price  == UnitPrice(products[pi].base_price, discounts[d])
              total_price == TotalPrice(unit_price, quantity)
              row == SaleRow(products[pi].product_id, dates[di].date_id,
                             quantity, unit_price, total_price, discounts[d],
                             channels[c], regions[r])
          IN  /\ cost <= free_draws
              /\ free_draws' = free_draws - cost
              /\ batch_data' = Append(batch_data, row)
              /\ emitted' = Append(emitted,
                     [row |-> row, base_quantity |-> base_quantity,
                      final_quantity |-> final_quantity])
              /\ base_quantity' = bq
              /\ final_quantity' =
                    DemandCeiling(bq, dates[di].month, dates[di].day_of_week,
                                  dates[di].full_date.year)
    /\ total_records' = total_records + 1
    /\ txns_left' = txns_left - 1
    /\ LET flush == Len(batch_data) + 1 >= batch_size
           last  == txns_left = 1
       IN  /\ pc' = IF flush THEN "gsd_flush"
                    ELSE IF last THEN "gsd_pair" ELSE "gsd_txn"
           /\ di' = IF ~flush /\ last THEN NextDi ELSE di
           /\ pi' = IF ~flush /\ last THEN NextPi ELSE pi
    /\ UNCHANGED <<storage, tx, runs, config, gdd_locals, dates, products,
                   flushes, printed, probe, template_state>>

\* one transaction: the draws, the append, the counter, the flush test
GsdEmit ==
    /\ pc = "gsd_txn"
    /\ final_quantity >= 1
    /\ \E quantity \in RandInt(1, final_quantity, {}),
          d \in RandChoice(discounts),
          c \in RandChoice(channels),
          r \in RandChoice(regions) :
          LET cost        == Cost(quantity, 1) + Cost(d, 1) + Cost(c, 1) + Cost(r, 1)
              unit_price  == UnitPrice(products[pi].base_price, discounts[d])
              total_price == TotalPrice(unit_price, quantity)
              row == SaleRow(products[pi].product_id, dates[di].date_id,
                             quantity, unit_price, total_price, discounts[d],
                             channels[c], regions[r])
          IN  /\ cost <= free_draws
              /\ free_draws' = free_draws - cost
              /\ batch_data' = Append(batch_data, row)
              /\ emitted' = Append(emitted,
                     [row |-> row, base_quantity |-> base_quantity,
                      final_quantity |-> final_quantity])
    /\ total_records' = total_records + 1
    /\ txns_left' = txns_left - 1
    /\ LET flush == Len(batch_data) + 1 >= batch_size
           last  == txns_left = 1
       IN  /\ pc' = IF flush THEN "gsd_flush"
                    ELSE IF last THEN "gsd_pair" ELSE "gsd_txn"
           /\ di' = IF ~flush /\ last THEN NextDi ELSE di
           /\ pi' = IF ~flush /\ last THEN NextPi ELSE pi
    /\ UNCHANGED <<storage, tx, runs, config, gdd_locals, dates, products,
                   base_quantity, final_quantity, flushes, printed, probe, template_state>>

\* faulty variant: a flush puts its batch in front of the stored records
GsdFlushPrepend ==
    /\ pc = "gsd_flush"
    /\ dimension_dates' = View.dates
    /\ fact_daily_sales' = batch_data \o View.sales
    /\ date_seq' = View.seq
    /\ tx' = NoTx
    /\ flushes' = Append(flushes, Len(batch_data))
    /\ batch_data' = <<>>
    /\ printed' = printed \cup {"Generated sales records..."}
    /\ pc' = IF txns_left = 0 THEN "gsd_pair" ELSE "gsd_txn"
    /\ di' = IF txns_left = 0 THEN NextDi ELSE di
    /\ pi' = IF txns_left = 0 THEN NextPi ELSE pi
    /\ UNCHANGED <<db_exists, dimension_products, runs, config, gdd_locals,
                   dates, products, base_quantity, final_quantity, txns_left,
                   total_records, emitted, free_draws, probe, template_state>>

\* faulty variant: the flush commits but batch_data = [] is left out
GsdFlushKeepBuffer ==
    /\ pc = "gsd_flush"
    /\ dimension_dates' = View.dates
    /\ fact_daily_sales' = View.sales \o batch_data
    /\ date_seq' = View.seq
    /\ tx' = NoTx
    /\ flushes' = Append(flushes, Len(batch_data))
    /\ printed' = printed \cup {"Generated sales records..."}
    /\ pc' = IF txns_left = 0 THEN "gsd_pair" ELSE "gsd_txn"
    /\ di' = IF txns_left = 0 THEN NextDi ELSE di
    /\ pi' = IF txns_left = 0 THEN NextPi ELSE pi
    /\ UNCHANGED <<db_exists, dimension_products, runs, config, gdd_locals,
                   dates, products, base_quantity, final_quantity, txns_left,
                   batch_data, total_records, emitted, free_draws, probe, template_state>>

\* executemany(batch_data), conn.commit(), batch_data = []
GsdFlush ==
    /\ pc = "gsd_flush"
    /\ dimension_dates' = View.dates
    /\ fact_daily_sales' = View.sales \o batch_data
    /\ date_seq' = View.seq
    /\ tx' = NoTx
    /\ flushes' = Append(flushes, Len(batch_data))
    /\ batch_data' = <<>>
    /\ printed' = printed \cup {"Generated sales records..."}
    /\ pc' = IF txns_left = 0 THEN "gsd_pair" ELSE "gsd_txn"
    /\ di' = IF txns_left = 0 THEN NextDi ELSE di
    /\ pi' = IF txns_left = 0 THEN NextPi ELSE pi
    /\ UNCHANGED <<db_exists, dimension_products, runs, config, gdd_locals,
                   dates, products, base_quantity, final_quantity, txns_left,
                   total_records, emitted, free_draws, probe, template_state>>

\* faulty variant: the remaining records are not inserted at the end
GsdFinishNoFlush ==
    /\ pc = "gsd_pair"
    /\ NoMorePairs
    /\ Close
    /\ printed' = printed \cup {"Sales data generation completed"}
    /\ GsdReturn
    /\ UNCHANGED <<runs, config, gdd_locals, total_records, emitted, flushes,
                   free_draws, probe, template_state>>

\* after the loops: the remaining records, the completion message, close()
GsdFinish ==
    /\ pc = "gsd_pair"
    /\ NoMorePairs
    /\ IF batch_data # <<>>
       THEN /\ dimension_dates' = View.dates
            /\ fact_daily_sales' = View.sales \o batch_data
            /\ date_seq' = View.seq
            /\ tx' = NoTx
            /\ flushes' = Append(flushes, Len(batch_data))
            /\ UNCHANGED <<db_exists, dimension_products>>
       ELSE /\ Close
            /\ UNCHANGED flushes
    /\ printed' = printed \cup {"Sales data generation completed"}
    /\ GsdReturn
    /\ UNCHANGED <<runs, config, gdd_locals, total_records, emitted,
                   free_draws, probe, template_state>>

\* faulty variant: the handler commits what the transaction has done
GsdFailCommits ==
    /\ pc = "gsd_read"
    /\ tx' = NoTx
    /\ fact_daily_sales' = <<>>
    /\ printed' = printed \cup {"Error generating sales data: storage"}
    /\ GsdReturn
    /\ UNCHANGED <<db_exists, dimension_products, dimension_dates, date_seq,
                   runs, config, gdd_locals, total_records, emitted, flushes,
                   free_draws, probe, template_state>>

\* a statement on the connection raises: except prints, finally closes
GsdFail ==
    /\ pc = "gsd_read"
    /\ Close
    /\ printed' = printed \cup {"Error generating sales data: storage"}
    /\ GsdReturn
    /\ UNCHANGED <<runs, config, gdd_locals, total_records, emitted, flushes,
                   free_draws, probe, template_state>>

\* faulty variant: close() keeps what the transaction has written
CommitOnClose(view) == view

\* what the file holds after close() on a connection whose view was not
\* committed: the rows committed before
Rollback(view) ==
    [open |-> TRUE, dates |-> dimension_dates, sales |-> fact_daily_sales,
     seq |-> date_seq]

\* a flush raises: executemany after inserting k rows of the buffer, or
\* commit after all of them; except prints, finally closes
GsdFlushFail ==
    /\ \/ pc = "gsd_flush"
       \/ pc = "gsd_pair" /\ NoMorePairs /\ batch_data # <<>>
    /\ \E k \in 0..Len(batch_data) :
          LET view == [View EXCEPT !.sales = @ \o SubSeq(batch_data, 1, k)]
              kept == Rollback(view)
          IN  /\ dimension_dates' = kept.dates
              /\ fact_daily_sales' = kept.sales
              /\ date_seq' = kept.seq
    /\ tx' = NoTx
    /\ printed' = printed \cup {"Error generating sales data: storage"}
    /\ GsdReturn
    /\ UNCHANGED <<db_exists, dimension_products, runs, config, gdd_locals,
                   total_records, emitted, flushes, free_draws, probe, template_state>>

\* random.randint(1, final_quantity) on an empty range raises ValueError
GsdValueError ==
    /\ pc = "gsd_txn"
    /\ final_quantity < 1
    /\ Close
    /\ printed' = printed \cup {"Error generating sales data: empty range"}
    /\ GsdReturn
    /\ UNCHANGED <<runs, config, gdd_locals, total_records, emitted, flushes,
                   free_draws, probe, template_state>>

\* get_db_connection() raises: conn is unbound in finally, which raises again
GsdConnectFail ==
    /\ pc = "gsd_connect"
    /\ printed' = printed \cup {"Error generating sales data: storage"}
    /\ pc' = "crashed"
    /\ UNCHANGED <<storage, tx, runs, config, gdd_locals, gsd_locals,
                   free_draws, probe, template_state>>

(***************************************************************************)
(* __main__                                                                *)
(***************************************************************************)
MainStart ==
    /\ pc = "main"
    /\ IF db_exists
       THEN /\ pc' = "gdd_connect"
            /\ printed' = {"Starting data generation process..."}
       ELSE /\ pc' = "exit1"
            /\ printed' = {"Database file not found. Please run db_setup.py first."}
    /\ UNCHANGED <<storage, tx, runs, config, gdd_locals, gsd_locals,
                   free_draws, probe, template_state>>

MainStep2 ==
    /\ pc = "gdd_return"
    /\ pc' = "gsd_connect"
    /\ UNCHANGED <<storage, tx, runs, config, gdd_locals, gsd_locals,
                   printed, free_draws, probe, template_state>>

\* verify_data() only reads; then the closing message
MainStep3 ==
    /\ pc = "gsd_return"
    /\ printed' = printed \cup {"Data generation process completed!"}
    /\ pc' = "done"
    /\ UNCHANGED <<storage, tx, runs, config, gdd_locals, gsd_locals,
                   free_draws, probe, template_state>>

\* KeyboardInterrupt while a generate function runs: except Exception does
\* not catch it, finally closes the connection, the process ends
Cancel ==
    /\ pc \in {"gdd_delete", "gdd_loop", "gsd_read", "gsd_pair", "gsd_txn",
               "gsd_flush"}
    /\ Close
    /\ printed' = printed \cup {"KeyboardInterrupt"}
    /\ pc' = "crashed"
    /\ current_date' = ReferenceStart
    /\ dates' = <<>>
    /\ products' = <<>>
    /\ di' = 0
    /\ pi' = 0
    /\ base_quantity' = 0
    /\ final_quantity' = 0
    /\ txns_left' = 0
    /\ batch_data' = <<>>
    /\ UNCHANGED <<runs, config, total_records, emitted, flushes, free_draws,
                   probe, template_state>>

\* the program is executed again on the same database file
Rerun ==
    /\ pc \in {"done", "crashed"}
    /\ runs < MaxRuns
    /\ runs' = runs + 1
    /\ pc' = "main"
    /\ printed' = {}
    /\ total_records' = 0
    /\ emitted' = <<>>
    /\ flushes' = <<>>
    /\ UNCHANGED <<storage, tx, config, gdd_locals, dates, products, di, pi,
                   base_quantity, final_quantity, txns_left, batch_data,
                   free_draws, probe, template_state>>

Next ==
    \/ MainStart
    \/ GddConnect
    \/ GddDelete
    \/ GddInsert
    \/ GddCommit
    \/ GddFail
    \/ GddConnectFail
    \/ MainStep2
    \/ GsdConnect
    \/ GsdRead
    \/ GsdPair
    \/ GsdEmit
    \/ GsdFlush
    \/ GsdFinish
    \/ GsdFail
    \/ GsdFlushFail
    \/ GsdValueError
    \/ GsdConnectFail
    \/ MainStep3
    \/ Cancel
    \/ Rerun

Spec == Init /\ [][Next]_vars

(***************************************************************************)
(* The Calendar Builder on its own, over the reference calendar: a caller  *)
(* invokes generate_date_dimension() up to MaxRuns times.                  *)
(***************************************************************************)
InitCalendar ==
    /\ db_exists = TRUE
    /\ \E stale \in BOOLEAN : InitStore(MaxProducts, stale)
    /\ start_date = ReferenceStart
    /\ end_date = ReferenceEnd
    /\ pc = "idle"
    /\ runs = 0
    /\ IdleLocals
    /\ printed = {}
    /\ free_draws = MaxFreeDraws
    /\ probe = NoProbe
    /\ NewBuilder

CallGdd ==
    /\ pc \in {"idle", "gdd_return", "crashed"}
    /\ runs < MaxRuns
    /\ runs' = runs + 1
    /\ pc' = "gdd_connect"
    /\ printed' = {}
    /\ UNCHANGED <<storage, tx, config, gdd_locals, gsd_locals, free_draws,
                   probe, template_state>>

NextCalendar ==
    \/ CallGdd
    \/ GddConnect
    \/ GddDelete
    \/ GddInsert
    \/ GddCommit
    \/ GddFail
    \/ GddConnectFail

SpecCalendar == InitCalendar /\ [][NextCalendar]_vars

(***************************************************************************)
(* The Seasonal Demand Model on its own: one evaluation of the ceiling for *)
(* a base quantity of randint(10, 50), a month, a weekday and a year of    *)
(* the reference calendar or of the YearsBefore years preceding the anchor.*)
(***************************************************************************)
YearsBefore == 11

ProbeYears == (AnchorYear - YearsBefore)..ReferenceEnd.year

InitDemand ==
    /\ db_exists = TRUE
    /\ InitStore(0, FALSE)
    /\ start_date = ReferenceStart
    /\ end_date = ReferenceEnd
    /\ pc = "probe"
    /\ runs = 0
    /\ IdleLocals
    /\ printed = {}
    /\ free_draws = 0
    /\ \E b \in BaseQuantityLow..BaseQuantityHigh, m \in 1..12, w \in 0..6,
          y \in ProbeYears :
          probe = [done |-> FALSE, base_quantity |-> b, month |-> m,
                   day_of_week |-> w, year |-> y, ceiling |-> 0]
    /\ NewBuilder

EvalDemand ==
    /\ pc = "probe"
    /\ ~probe.done
    /\ probe' = [probe EXCEPT
                   !.done = TRUE,
                   !.ceiling = DemandCeiling(probe.base_quantity, probe.month,
                                             probe.day_of_week, probe.year)]
    /\ UNCHANGED <<storage, tx, pc, runs, config, gdd_locals, gsd_locals,
                   printed, free_draws, template_state>>

NextDemand == EvalDemand

SpecDemand == InitDemand /\ [][NextDemand]_vars

(***************************************************************************)
(* template_validator.py and template_builder.py.  A TemplateValidator is  *)
(* explored in two ways: on its own, with up to MaxCalls calls of its      *)
(* methods in any order, and as the validator of a TemplateBuilder whose   *)
(* main() creates the three dashboards in turn.  Each try block may be     *)
(* left by an exception at any of its statements; str(e) is one of         *)
(* ErrorTexts.                                                             *)
(***************************************************************************)
MaxCalls == 3

ErrorTexts == {"", "out of memory"}

\* TableauConnector.tables with the frame read_sql_query returns for each
TableFrames ==
    <<[table |-> "fact_daily_sales", rows |-> fact_daily_sales],
      [table |-> "dimension_products", rows |-> dimension_products],
      [table |-> "dimension_dates", rows |-> dimension_dates]>>

\* the dict appended for one table; null_values, data_types and duplicates
\* are further summaries of the same frame
DataSourceEntry(frame) ==
    [table |-> frame.table, row_count |-> Len(frame.rows)]

\* faulty variant: every validation starts from empty lists
validate_data_source_reset(results, data_source, done, e) ==
    IF done = Len(data_source)
    THEN [results EXCEPT
            !.data_source = [i \in 1..done |-> DataSourceEntry(data_source[i])],
            !.errors = <<>>]
    ELSE [results EXCEPT
            !.data_source = [i \in 1..done |-> DataSourceEntry(data_source[i])],
            !.errors = <<e>>]

\* validation_results after validate_data_source(data_source) when the loop
\* completes `done` iterations: all of them, or an exception with text e
\* ends the next one
validate_data_source(results, data_source, done, e) ==
    IF done = Len(data_source)
    THEN [results EXCEPT
            !.data_source =
                @ \o [i \in 1..done |-> DataSourceEntry(data_source[i])]]
    ELSE [results EXCEPT
            !.data_source =
                @ \o [i \in 1..done |-> DataSourceEntry(data_source[i])],
            !.errors = Append(@, e)]

\* the tests dict for the series 100, 120, 150, 140, 160: no value thirteen
\* places back, a window of 7 over 5 values, and the quotient 100 / 7
CalculationTests ==
    [yoy_growth |-> 0, moving_avg |-> <<0, 0, 0, 0, 0>>,
     sales_velocity |-> [quantity |-> 100, time_period |-> 7]]

test_calculations(results, raises, e) ==
    IF raises
    THEN [results EXCEPT !.errors = Append(@, e)]
    ELSE [results EXCEPT !.calculations = CalculationTests]

\* load_time is the difference of two clock readings and is left out
test_performance(results, template_path, raises, e) ==
    IF raises
    THEN [results EXCEPT !.errors = Append(@, e)]
    ELSE [results EXCEPT
            !.performance =
                Append(@, [template |-> template_path,
                           memory_usage |-> "TBD"])]

\* every recorded value is a built-in int, str, list or dict, which
\* _convert_to_serializable returns as it is; the timestamp is left out
get_validation_report(results) ==
    [results |-> results,
     status |-> IF results.errors = <<>> THEN "PASS" ELSE "FAIL"]

OtherLocalsIdle ==
    UNCHANGED <<storage, tx, runs, config, gdd_locals, gsd_locals,
                free_draws, probe>>

ValidateDataSource ==
    /\ pc = "validator"
    /\ calls < MaxCalls
    /\ \E n \in 0..Len(TableFrames), e \in ErrorTexts :
          \E done \in 0..n :
             validation_results' =
                 validate_data_source(validation_results,
                                      SubSeq(TableFrames, 1, n), done, e)
    /\ calls' = calls + 1
    /\ OtherLocalsIdle
    /\ UNCHANGED <<pc, printed, templates>>

TestCalculations ==
    /\ pc = "validator"
    /\ calls < MaxCalls
    /\ \E raises \in BOOLEAN, e \in ErrorTexts :
          validation_results' =
              test_calculations(validation_results, raises, e)
    /\ calls' = calls + 1
    /\ OtherLocalsIdle
    /\ UNCHANGED <<pc, printed, templates>>

TestPerformance ==
    /\ pc = "validator"
    /\ calls < MaxCalls
    /\ \E i \in 1..Len(Dashboards), raises \in BOOLEAN, e \in ErrorTexts :
          validation_results' =
              test_performance(validation_results, Dashboards[i], raises, e)
    /\ calls' = calls + 1
    /\ OtherLocalsIdle
    /\ UNCHANGED <<pc, printed, templates>>

BuilderSteps ==
    <<"create_sales_dashboard", "create_product_dashboard",
      "create_regional_dashboard", "export_templates">>

CreatedLogs ==
    <<"Sales dashboard template created successfully",
      "Product dashboard template created successfully",
      "Regional dashboard template created successfully">>

FailedLogs ==
    <<"Failed to create sales dashboard",
      "Failed to create product dashboard",
      "Failed to create regional dashboard">>

\* one create_*_dashboard(): get_data_source() raises and the failure is
\* logged, or the shared validator runs on the three frames and its report
\* is stored under the dashboard's name
CreateDashboard(i) ==
    /\ pc = BuilderSteps[i]
    /\ pc' = BuilderSteps[i + 1]
    /\ \/ /\ printed' = printed \cup {FailedLogs[i]}
          /\ UNCHANGED <<validation_results, templates>>
       \/ \E done \in 0..Len(TableFrames), raises \in BOOLEAN,
             e \in ErrorTexts :
             LET validated == validate_data_source(validation_results,
                                                   TableFrames, done, e)
                 tested == test_calculations(validated, raises, e)
             IN  /\ validation_results' = tested
                 /\ templates' =
                        [templates EXCEPT
                           ![Dashboards[i]] =
                               [created |-> TRUE,
                                metadata |->
                                    [name |-> Dashboards[i],
                                     tables |->
                                         [t \in 1..Len(TableFrames) |->
                                              TableFrames[t].table]],
                                validation |->
                                    get_validation_report(tested)]]
                 /\ printed' = printed \cup {CreatedLogs[i]}
    /\ OtherLocalsIdle
    /\ UNCHANGED calls

CreateSalesDashboard == CreateDashboard(1)

CreateProductDashboard == CreateDashboard(2)

CreateRegionalDashboard == CreateDashboard(3)

InitValidator ==
    /\ db_exists = TRUE
    /\ \E nprod \in 0..MaxProducts, stale \in BOOLEAN : InitStore(nprod, stale)
    /\ start_date = ReferenceStart
    /\ end_date = ReferenceEnd
    /\ pc \in {"validator", BuilderSteps[1]}
    /\ runs = 0
    /\ IdleLocals
    /\ printed = {}
    /\ free_draws = 0
    /\ probe = NoProbe
    /\ NewBuilder

NextValidator ==
    \/ ValidateDataSource
    \/ TestCalculations
    \/ TestPerformance
    \/ CreateSalesDashboard
    \/ CreateProductDashboard
    \/ CreateRegionalDashboard

SpecValidator == InitValidator /\ [][NextValidator]_vars

(***************************************************************************)
(* Properties of the Calendar Builder.                                     *)
(***************************************************************************)
GddSucceeded == "Date dimension generated successfully" \in printed

\* days from start_date to end_date inclusive
RangeLen == ToOrdinal(end_date) - ToOrdinal(start_date) + 1

ValidDate(d) ==
    /\ d.month \in 1..12
    /\ d.day \in 1..DaysInMonth(d.year, d.month)

\* the calendar day with ordinal n, for a day of the years the model visits
FromOrdinal(n) ==
    LET y == CHOOSE yy \in (StaleDate.year)..(ReferenceEnd.year + 1) :
                 DaysBeforeYear(yy) < n /\ n <= DaysBeforeYear(yy + 1)
        m == CHOOSE mm \in 1..12 :
                 /\ DaysBeforeYear(y) + DaysBeforeMonth(y, mm) < n
                 /\ n <= DaysBeforeYear(y) + DaysBeforeMonth(y, mm)
                         + DaysInMonth(y, mm)
    IN  [year |-> y, month |-> m,
         day |-> n - DaysBeforeYear(y) - DaysBeforeMonth(y, m)]

\* a DateRecord: a row of dimension_dates without its key
DateRecord(row) ==
    [full_date |-> row.full_date, year |-> row.year, month |-> row.month,
     day |-> row.day, day_of_week |-> row.day_of_week,
     quarter |-> row.quarter, season |-> row.season]

\* the row most recently inserted in the open transaction, if any
LastInserted == IF tx.open /\ tx.dates # <<>> THEN {tx.dates[Len(tx.dates)]} ELSE {}

\* C1: when generate_date_dimension has completed successfully, the date
\* dimension holds exactly one row for every calendar day from start_date to
\* end_date inclusive, in strictly ascending date order: the i-th row is the
\* i-th day of the range, none missing, none twice.
C1_OneRecordPerDay ==
    GddSucceeded =>
        /\ Len(dimension_dates) = RangeLen
        /\ \A i \in 1..Len(dimension_dates) :
              LET row == dimension_dates[i]
                  d   == ParseDate(row.full_date)
              IN  /\ ValidDate(d)
                  /\ ToOrdinal(d) = ToOrdinal(start_date) + i - 1
                  /\ row.year = d.year /\ row.month = d.month /\ row.day = d.day

C1_Witness ==
    /\ pc = "gdd_return"
    /\ GddSucceeded
    /\ RangeLen > 366
    /\ ParseDate(dimension_dates[1].full_date) = ReferenceStart
    /\ ParseDate(dimension_dates[Len(dimension_dates)].full_date) = ReferenceEnd
    /\ \E i \in 1..Len(dimension_dates) :
          dimension_dates[i].month = 2 /\ dimension_dates[i].day = 29

SeasonQuarterOk(row) ==
    /\ row.month \in {12, 1, 2} => row.season = "Winter"
    /\ row.month \in {3, 4, 5} => row.season = "Spring"
    /\ row.month \in {6, 7, 8} => row.season = "Summer"
    /\ row.month \in {9, 10, 11} => row.season = "Fall"
    /\ row.quarter = ((row.month - 1) \div 3) + 1
    /\ row.quarter \in 1..4
    /\ row.month = ParseDate(row.full_date).month

\* C2: season and quarter of every DateRecord are determined by its month:
\* Winter for 12, 1, 2, Spring for 3, 4, 5, Summer for 6, 7, 8, Fall for 9, 10,
\* 11, and quarter ((month-1)//3)+1, in 1..4.  Every row is checked when it
\* is inserted and all rows again when the function returns.
C2_SeasonAndQuarterByMonth ==
    /\ \A row \in LastInserted : SeasonQuarterOk(row)
    /\ pc = "gdd_return" =>
          \A i \in 1..Len(dimension_dates) : SeasonQuarterOk(dimension_dates[i])

C2_Witness ==
    /\ pc = "gdd_return"
    /\ GddSucceeded
    /\ {dimension_dates[i].season : i \in 1..Len(dimension_dates)} =
          {"Winter", "Spring", "Summer", "Fall"}
    /\ {dimension_dates[i].quarter : i \in 1..Len(dimension_dates)} = 1..4

\* rows i and i+1 are consecutive days of the week
WeekdayFollows(rows, i) ==
    rows[i + 1].day_of_week = (rows[i].day_of_week + 1) % 7

WeekdayAnchor(row) ==
    /\ row.day_of_week \in 0..6
    /\ row.full_date = 20150101 => row.day_of_week = 3
    /\ row.full_date = 20150102 => row.day_of_week = 4

\* C3: every weekday is in 0..6 with Monday 0 and Sunday 6: 2015-01-01 has
\* weekday 3, 2015-01-02 has weekday 4, and each following day has the
\* weekday of the day before plus 1 modulo 7.  Checked on every insert and
\* on the whole table when the function returns.
C3_WeekdayMondayZero ==
    /\ \A row \in LastInserted : WeekdayAnchor(row)
    /\ (tx.open /\ pc = "gdd_loop" /\ Len(tx.dates) >= 2) =>
          WeekdayFollows(tx.dates, Len(tx.dates) - 1)
    /\ (pc = "gdd_return" /\ GddSucceeded) =>
          /\ \A i \in 1..Len(dimension_dates) : WeekdayAnchor(dimension_dates[i])
          /\ \A i \in 1..(Len(dimension_dates) - 1) :
                WeekdayFollows(dimension_dates, i)

C3_Witness ==
    /\ pc = "gdd_return"
    /\ GddSucceeded
    /\ dimension_dates[1].full_date = 20150101
    /\ dimension_dates[1].day_of_week = 3
    /\ dimension_dates[2].day_of_week = 4
    /\ \E i \in 1..(Len(dimension_dates) - 1) :
          dimension_dates[i].day_of_week = 6 /\ dimension_dates[i + 1].day_of_week = 0

\* the DateRecord a run on an empty table inserts in its i-th iteration
FreshRecord(i) == DateRecord(DateRow(i, FromOrdinal(ToOrdinal(start_date) + i - 1)))

\* C4: truncate-then-rebuild is idempotent: after any successful call, the
\* first or a repeated one, on an empty table or on one holding earlier rows,
\* the DateRecords stored are those a single run on an empty table stores,
\* each once, and no earlier row is left.
C4_Idempotent ==
    (pc = "gdd_return" /\ GddSucceeded) =>
        /\ Len(dimension_dates) = RangeLen
        /\ \A i \in 1..Len(dimension_dates) :
              DateRecord(dimension_dates[i]) = FreshRecord(i)
        /\ \A i \in 1..Len(dimension_dates) :
              dimension_dates[i].full_date # StaleDateRow.full_date

\* a second successful call in a row, the first having filled the table
C4_Witness ==
    /\ pc = "gdd_return"
    /\ GddSucceeded
    /\ runs = 2
    /\ dimension_dates[1].date_id > RangeLen

(***************************************************************************)
(* Properties of the Transaction Synthesizer.                              *)
(***************************************************************************)
GsdCompleted == "Sales data generation completed" \in printed

\* the records the current run appended, in order
EmittedRows == [i \in 1..Len(emitted) |-> emitted[i].row]

RECURSIVE SumSeq(_)
SumSeq(q) == IF q = <<>> THEN 0 ELSE Head(q) + SumSeq(Tail(q))

DateIds == {dimension_dates[i].date_id : i \in 1..Len(dimension_dates)}

ProductIds == {dimension_products[i].product_id : i \in 1..Len(dimension_products)}

\* how many of the rows belong to the pair (date_id, product_id)
PairCount(rows, date_id, product_id) ==
    Cardinality({i \in 1..Len(rows) :
                    rows[i].date_id = date_id /\ rows[i].product_id = product_id})

\* C5: when generate_sales_data has completed successfully, the records it
\* stored are the records it generated, every pair of a persisted date and a
\* product has at least 1 and at most 3 of them, no record belongs to a pair
\* outside the cross product, and D dates and P products give between D*P
\* and 3*D*P records.
C5_OneToThreePerPair ==
    GsdCompleted =>
        LET rows == EmittedRows
            D    == Cardinality(DateIds)
            P    == Cardinality(ProductIds)
        IN  /\ rows # <<>> => fact_daily_sales = rows
            /\ SumSeq(flushes) = Len(rows)
            /\ D = Len(dimension_dates) /\ P = Len(dimension_products)
            /\ \A d \in DateIds, q \in ProductIds :
                  PairCount(rows, d, q) \in 1..3
            /\ \A i \in 1..Len(rows) :
                  rows[i].date_id \in DateIds /\ rows[i].product_id \in ProductIds
            /\ D * P <= Len(rows) /\ Len(rows) <= 3 * D * P

C5_Witness ==
    /\ GsdCompleted
    /\ pc = "done"
    /\ Len(dimension_dates) = 2
    /\ Len(dimension_products) = 2
    /\ \E d \in DateIds, q \in ProductIds : PairCount(fact_daily_sales, d, q) = 3
    /\ \E d \in DateIds, q \in ProductIds : PairCount(fact_daily_sales, d, q) = 1

\* x is within half a cent of the decimal num/den
FNearDecimal(x, num, den) ==
    LET k    == IF x.exp < 0 THEN 0 - x.exp ELSE 0
        lhs  == BigShl(BigMul(x.man, BigMul(BigFromInt(200), BigFromInt(den))),
                       x.exp + k)
        rhs  == BigShl(BigMul(BigFromInt(200), BigFromInt(num)), k)
        tol  == BigShl(BigFromInt(den), k)
        diff == IF BigCmp(lhs, rhs) >= 0 THEN BigSub(lhs, rhs)
                ELSE BigSub(rhs, lhs)
    IN  x.sign = 1 /\ BigCmp(diff, tol) < 0

\* the prices of a record against the decimal prices of the catalogue
PricesOk(row) ==
    /\ row.product_id \in 1..Len(dimension_products)
    /\ \E t \in 0..10 :
          LET cents == CataloguePrices[row.product_id]
          IN  /\ row.discount = Lit(t, 10)
              /\ dimension_products[row.product_id].base_price = Lit(cents, 100)
              /\ FNearDecimal(row.unit_price, cents * (10 - t), 1000)
              /\ FNearDecimal(row.total_price,
                              cents * (10 - t) * row.quantity, 1000)
              /\ row.total_price = FMul(row.unit_price, FromInt(row.quantity))

\* C6: every record the Transaction Synthesizer emits has unit_price equal
\* to the base price of the product it refers to times (1 - discount), and
\* total_price equal to unit_price times quantity: as binary64 products, and
\* within half a cent of the decimal values.  Each record is checked when it
\* is appended and all of them again when the function returns.
C6_Prices ==
    /\ batch_data # <<>> => PricesOk(batch_data[Len(batch_data)])
    /\ pc = "gsd_return" => \A i \in 1..Len(emitted) : PricesOk(emitted[i].row)

C6_Witness ==
    /\ pc = "gsd_return"
    /\ GsdCompleted
    /\ \E i \in 1..Len(fact_daily_sales) :
          /\ fact_daily_sales[i].discount = F0_2
          /\ fact_daily_sales[i].product_id = 2
          /\ fact_daily_sales[i] \in {emitted[j].row : j \in 1..Len(emitted)}

FieldsOk(row) ==
    /\ row.discount \in {Lit(0, 10), Lit(1, 10), Lit(2, 10)}
    /\ row.channel \in {"online", "store"}
    /\ row.region \in {"North", "South", "East", "West"}

AllFieldsOk(rows) == \A i \in 1..Len(rows) : FieldsOk(rows[i])

\* C7: every record emitted has its discount in {0, 0.1, 0.2}, its channel
\* in {online, store} and its region in {North, South, East, West}, and no
\* other value is in the buffer, in the open transaction or in the table.
C7_FieldDomains ==
    /\ AllFieldsOk(batch_data)
    /\ AllFieldsOk(EmittedRows)
    /\ AllFieldsOk(fact_daily_sales)
    /\ tx.open => AllFieldsOk(tx.sales)

C7_Witness ==
    /\ pc = "done"
    /\ \E i \in 1..Len(fact_daily_sales) :
          /\ fact_daily_sales[i].region = "West"
          /\ fact_daily_sales[i] \in {emitted[j].row : j \in 1..Len(emitted)}
    /\ \E i \in 1..Len(fact_daily_sales) :
          fact_daily_sales[i].region = "North"

\* every record generated so far is in the buffer or has been committed
NothingLost == SumSeq(flushes) + Len(batch_data) = Len(emitted)

\* C8: every record's quantity is in 1..demand_ceiling of its pair, and a
\* ceiling below 1 is handled: no quantity below 1 is emitted and the
\* records generated for the other pairs are not lost.
C8_QuantityWithinCeiling ==
    /\ \A i \in 1..Len(emitted) :
          /\ emitted[i].row.quantity >= 1
          /\ emitted[i].row.quantity <= emitted[i].final_quantity
    /\ "Error generating sales data: empty range" \in printed => NothingLost

(***************************************************************************)
(* Properties of the Seasonal Demand Model.                                *)
(***************************************************************************)
\* base_quantity * seasonal * weekend * growth in thousandths, exactly
ExactProduct(b, month, day_of_week, year) ==
    LET seasonal == IF month = 12 THEN 15
                    ELSE IF month = 1 THEN 13
                    ELSE IF month \in {6, 7, 8} THEN 12
                    ELSE 10
        weekend  == IF day_of_week \in {5, 6} THEN 12 ELSE 10
        growth   == 10 + (year - 2015)
    IN  b * seasonal * weekend * growth

\* truncation toward zero of n / 1000
ExactCeiling(b, month, day_of_week, year) ==
    LET n == ExactProduct(b, month, day_of_week, year)
    IN  IF n >= 0 THEN n \div 1000 ELSE 0 - ((0 - n) \div 1000)

\* C9: for every base_quantity in 10..50, month, weekday and year, the
\* ceiling the code computes is the exact product base_quantity * seasonal *
\* weekend * growth truncated toward zero.
C9_ExactTruncation ==
    probe.done =>
        probe.ceiling = ExactCeiling(probe.base_quantity, probe.month,
                                     probe.day_of_week, probe.year)

\* C10: in the years of the configured range, the ceiling for December is at
\* least the ceiling for a month other than 12, 1, 6, 7, 8 with the same
\* base_quantity, weekday and year.
C10_DecemberAtLeastPlainMonth ==
    (/\ probe.done
     /\ probe.year \in 2015..2024
     /\ probe.month \notin {12, 1, 6, 7, 8}) =>
        DemandCeiling(probe.base_quantity, 12, probe.day_of_week, probe.year)
            >= probe.ceiling

C10_Witness ==
    /\ probe.done
    /\ probe.year = 2024
    /\ probe.month = 3
    /\ probe.base_quantity = 10
    /\ probe.ceiling = 19
    /\ DemandCeiling(10, 12, probe.day_of_week, 2024) > probe.ceiling

(***************************************************************************)
(* Properties of the Batch Persistence Sink.                               *)
(***************************************************************************)
\* a step that commits a batch
FlushStep == Len(flushes') > Len(flushes)

\* the run is past its loops with records still buffered
RunEndsWithRecords == pc = "gsd_pair" /\ NoMorePairs /\ batch_data # <<>>

BufferBelowThreshold ==
    /\ Len(batch_data) <= batch_size
    /\ Len(batch_data) >= batch_size <=> pc = "gsd_flush"

AllEmittedCommitted ==
    /\ batch_data = <<>>
    /\ SumSeq(flushes) = Len(emitted)
    /\ emitted # <<>> => fact_daily_sales = EmittedRows

FlushOnlyWhenDue ==
    /\ fact_daily_sales' # fact_daily_sales => FlushStep
    /\ FlushStep =>
          /\ \/ pc = "gsd_flush" /\ Len(batch_data) >= batch_size
             \/ RunEndsWithRecords
          /\ fact_daily_sales' = View.sales \o batch_data
          /\ flushes' = Append(flushes, Len(batch_data))
          /\ batch_data' = <<>>
          /\ tx' = NoTx

FlushCount(n) == (n \div batch_size) + (IF n % batch_size = 0 THEN 0 ELSE 1)

\* C12: a run that emits N records with batch size B and completes makes
\* N div B flushes of B records and then one flush of N mod B records when that is not zero,
\* and the records committed by the flushes are the emitted records, each
\* once and in order.  While the run is under way (or after it was aborted)
\* every flush made so far has B records and the table holds the emitted
\* records those flushes cover.
C12_FlushSizes ==
    LET N == Len(emitted)
        F == Len(flushes)
    IN  /\ \A i \in 1..F :
              \/ flushes[i] = batch_size
              \/ i = F /\ GsdCompleted /\ flushes[i] = N % batch_size
        /\ F <= FlushCount(N)
        /\ F > 0 => fact_daily_sales = SubSeq(EmittedRows, 1, SumSeq(flushes))
        /\ GsdCompleted =>
              /\ F = FlushCount(N)
              /\ \A i \in 1..(N \div batch_size) : flushes[i] = batch_size
              /\ SumSeq(flushes) = N

\* five records with the model's batch size: full flushes, then the rest
C12_Witness ==
    /\ GsdCompleted
    /\ Len(emitted) = 2 * batch_size + 1
    /\ flushes = <<batch_size, batch_size, 1>>
    /\ Len(fact_daily_sales) = Len(emitted)

\* a step in which a flush fails
FlushFails ==
    /\ pc = "gsd_flush" \/ RunEndsWithRecords
    /\ "Error generating sales data: storage" \in printed'
    /\ pc' = "gsd_return"

\* the table holds whole batches of the run only
WholeBatchesStored ==
    flushes # <<>> =>
        /\ fact_daily_sales = SubSeq(EmittedRows, 1, SumSeq(flushes))
        /\ Len(fact_daily_sales) % batch_size = 0 \/ GsdCompleted

\* C13: a flush is all-or-nothing.  A flush that fails, in executemany after
\* any number of rows or at commit, leaves the table as it was before the
\* flush and no transaction open, and in no state does the table hold some
\* but not all records of a batch.
C13_FlushAllOrNothing ==
    /\ []WholeBatchesStored
    /\ [][FlushFails =>
            /\ fact_daily_sales' = fact_daily_sales
            /\ tx' = NoTx
            /\ flushes' = flushes]_vars

\* a flush failed after an earlier batch had been committed
C13_Witness ==
    /\ pc = "gsd_return"
    /\ "Error generating sales data: storage" \in printed
    /\ flushes = <<batch_size>>
    /\ Len(emitted) > batch_size
    /\ Len(fact_daily_sales) = batch_size

\* a step that aborts generate_sales_data: a storage error, the ValueError
\* of an empty range, or cancellation
GsdAborts ==
    /\ pc \in {"gsd_read", "gsd_pair", "gsd_txn", "gsd_flush"}
    /\ pc' \in {"gsd_return", "crashed"}
    /\ ~("Sales data generation completed" \in printed')

\* the run's stored records are its first Len(flushes) whole batches
FirstBatchesStored ==
    /\ \A i \in 1..Len(flushes) : flushes[i] = batch_size \/ GsdCompleted
    /\ flushes # <<>> =>
          fact_daily_sales = SubSeq(EmittedRows, 1, SumSeq(flushes))

\* C14: a run aborted at any point, by a storage error or by cancellation,
\* leaves the table as N whole batches applied: the aborting step changes
\* nothing in the table and leaves no transaction open, the table changes
\* only in a flush, and what the run has stored is its first N batches in
\* generation order (for N = 0 the table is what it was before the run).
C14_AbortLeavesWholeBatches ==
    /\ []FirstBatchesStored
    /\ [][/\ fact_daily_sales' # fact_daily_sales => FlushStep
          /\ GsdAborts =>
                /\ fact_daily_sales' = fact_daily_sales
                /\ flushes' = flushes
                /\ tx' = NoTx]_vars

\* cancelled with one batch committed and a record in the buffer
C14_Witness ==
    /\ pc = "crashed"
    /\ "KeyboardInterrupt" \in printed
    /\ flushes = <<batch_size>>
    /\ Len(emitted) = batch_size + 1
    /\ fact_daily_sales = SubSeq(EmittedRows, 1, batch_size)

(***************************************************************************)
(* Properties of error handling and of the order of the steps.             *)
(***************************************************************************)
ErrorMessages ==
    {"Error generating date dimension",
     "Error generating sales data: storage",
     "Error generating sales data: empty range"}

ErrorReported == printed \cap ErrorMessages # {}

\* the step issues no DELETE and no INSERT
NoWriteIssued ==
    /\ ~tx'.open
    /\ dimension_dates' = dimension_dates
    /\ fact_daily_sales' = fact_daily_sales

\* C15: a run with no product, or a sales run with no persisted date, is
\* rejected before any write: no step of it issues a DELETE or an INSERT, and
\* when the program ends an error has been reported.
C15_InvalidConfigRejected ==
    /\ [][(\/ dimension_products = <<>>
           \/ pc = "gsd_read" /\ dimension_dates = <<>>) => NoWriteIssued]_vars
    /\ []((/\ pc = "done"
           /\ dimension_products = <<>> \/ dimension_dates = <<>>)
             => ErrorReported)

\* generate_sales_data has been entered
SynthesizerRuns ==
    pc \in {"gsd_connect", "gsd_read", "gsd_pair", "gsd_txn", "gsd_flush",
            "gsd_return"}

\* C16: a storage failure is fatal.  After a failed Calendar Builder step
\* the Transaction Synthesizer does not run, and after a storage failure in
\* either step the program does not report the generation as completed.
C16_StorageFailureFatal ==
    /\ "Error generating date dimension" \in printed => ~SynthesizerRuns
    /\ (\/ "Error generating date dimension" \in printed
        \/ "Error generating sales data: storage" \in printed)
          => ~("Data generation process completed!" \in printed)

(***************************************************************************)
(* Properties of the stored tables.                                        *)
(***************************************************************************)
\* C17: in every committed state of the store, each record of
\* fact_daily_sales has a date_id that is the key of a row of
\* dimension_dates and a product_id that is the key of a row of
\* dimension_products, also after the Calendar Builder has rebuilt the date
\* dimension while records of an earlier run are stored.
C17_ReferentialIntegrity ==
    \A i \in 1..Len(fact_daily_sales) :
        /\ fact_daily_sales[i].date_id \in DateIds
        /\ fact_daily_sales[i].product_id \in ProductIds

\* the table changes in a flush only: the first flush of a run replaces all
\* earlier records by its batch, a later one appends its batch
ClearAndReload ==
    fact_daily_sales' # fact_daily_sales =>
        /\ FlushStep
        /\ fact_daily_sales' =
              IF flushes = <<>> THEN batch_data
              ELSE fact_daily_sales \o batch_data

DatePos(date_id) ==
    CHOOSE i \in 1..Len(dimension_dates) : dimension_dates[i].date_id = date_id

ProductPos(product_id) ==
    CHOOSE i \in 1..Len(dimension_products) :
        dimension_products[i].product_id = product_id

\* generation sequence number of the pair a record belongs to
PairSeq(row) ==
    (DatePos(row.date_id) - 1) * Len(dimension_products)
        + ProductPos(row.product_id)

\* non-decreasing by generation sequence, the records of a pair contiguous
InGenerationOrder(rows) ==
    /\ \A i \in 1..(Len(rows) - 1) : PairSeq(rows[i]) <= PairSeq(rows[i + 1])
    /\ \A i, k \in 1..Len(rows) :
          (i < k /\ PairSeq(rows[i]) = PairSeq(rows[k])) =>
              \A j \in i..k : PairSeq(rows[j]) = PairSeq(rows[i])

\* generate_date_dimension is entered from the start of the program only,
\* generate_sales_data only when generate_date_dimension has returned
StepsInOrder ==
    /\ (pc' = "gdd_connect" /\ pc # "gdd_connect") => pc = "main"
    /\ (pc' = "gsd_connect" /\ pc # "gsd_connect") =>
          pc = "gdd_return" /\ tx = NoTx
    /\ pc = "main" => pc' \in {"main", "gdd_connect", "exit1"}
    /\ pc = "gdd_return" => pc' \in {"gdd_return", "gsd_connect"}

\* C19: in one execution the Calendar Builder runs once and has returned
\* before the Transaction Synthesizer starts, and the records are generated
\* and stored in generation order: dates in the order read, products in read
\* order within a date, every flush appended in order, so that the stored
\* records are non-decreasing by generation sequence and the records of one
\* (date, product) pair are contiguous.
C19_GenerationOrder ==
    /\ [][StepsInOrder]_vars
    /\ [](emitted # <<>> => InGenerationOrder(EmittedRows))
    /\ [](flushes # <<>> => InGenerationOrder(fact_daily_sales))
    /\ [](SynthesizerRuns /\ pc # "gsd_return" => InGenerationOrder(batch_data))

\* two dates, two products, a pair with two records, three flushes
C19_Witness ==
    /\ pc = "done"
    /\ GsdCompleted
    /\ Len(dimension_dates) = 2
    /\ Len(dimension_products) = 2
    /\ Len(flushes) = 3
    /\ \E i \in 1..(Len(fact_daily_sales) - 1) :
          PairSeq(fact_daily_sales[i]) = PairSeq(fact_daily_sales[i + 1])
    /\ PairSeq(fact_daily_sales[1]) = 1
    /\ PairSeq(fact_daily_sales[Len(fact_daily_sales)]) = 4

(***************************************************************************)
(* Properties of the draws of a (date, product) pair.                      *)
(***************************************************************************)
SamePair(a, b) ==
    a.row.date_id = b.row.date_id /\ a.row.product_id = b.row.product_id

\* the ceiling of the entry is the one of its own date and base_quantity
OwnCeiling(e) ==
    LET date == dimension_dates[DatePos(e.row.date_id)]
    IN  /\ e.base_quantity \in BaseQuantityLow..BaseQuantityHigh
        /\ e.final_quantity =
              DemandCeiling(e.base_quantity, date.month, date.day_of_week,
                            date.year)
        /\ e.row.quantity \in 1..e.final_quantity

\* base_quantity and final_quantity are assigned at the head of the product
\* loop and nowhere else while the function runs
DrawnAtPairHead ==
    (base_quantity' # base_quantity \/ final_quantity' # final_quantity) =>
        \/ pc = "gsd_pair" /\ pc' = "gsd_txn"
        \/ pc' \in {"gsd_return", "crashed"}

\* C20: base_quantity is drawn and the demand ceiling computed once per
\* (date, product) pair: the records of a pair share one base_quantity and
\* one ceiling, each record's quantity is drawn against the ceiling of its
\* own pair (its own date and base_quantity), and the two values change
\* only at the head of the product loop.
C20_OneDrawPerPair ==
    /\ [][DrawnAtPairHead]_vars
    /\ [](\A i, j \in 1..Len(emitted) :
            SamePair(emitted[i], emitted[j]) =>
                /\ emitted[i].base_quantity = emitted[j].base_quantity
                /\ emitted[i].final_quantity = emitted[j].final_quantity)
    /\ []((emitted # <<>> /\ pc \in {"gsd_txn", "gsd_pair", "gsd_flush"})
            => OwnCeiling(emitted[Len(emitted)]))
    /\ [](pc = "gsd_return" => \A i \in 1..Len(emitted) : OwnCeiling(emitted[i]))

\* a pair with three records under one ceiling, next to other pairs
C20_Witness ==
    /\ pc = "gsd_return"
    /\ GsdCompleted
    /\ Len(dimension_products) = 2
    /\ \E i \in 1..(Len(emitted) - 2) :
          /\ SamePair(emitted[i], emitted[i + 1])
          /\ SamePair(emitted[i], emitted[i + 2])
          /\ emitted[i].final_quantity = emitted[i + 2].final_quantity
          /\ emitted[i].final_quantity >= BaseQuantityLow
    /\ \E i, j \in 1..Len(emitted) : ~SamePair(emitted[i], emitted[j])

\* C21: for every year of the reference range 2015..2024, every month and
\* weekday and every base_quantity in 10..50, the growth factor is at least
\* 1.0 and the demand ceiling is at least base_quantity, hence at least 10,
\* so that randint(1, demand_ceiling) has a non-empty range; a ceiling
\* below 1 occurs only for a year before 2015.
C21_CeilingAtLeastBase ==
    /\ (probe.done /\ probe.year \in 2015..2024) =>
          /\ FTrunc(yoy_growth(probe.year)) >= 1
          /\ yoy_growth(probe.year).sign = 1
          /\ probe.ceiling >= probe.base_quantity
          /\ probe.ceiling >= 10
    /\ (probe.done /\ probe.ceiling < 1) => probe.year < 2015

\* the bound is met: the smallest base quantity on a plain weekday of 2015
C21_Witness ==
    /\ probe.done
    /\ probe.year = 2015
    /\ probe.month = 3
    /\ probe.day_of_week = 2
    /\ probe.base_quantity = 10
    /\ probe.ceiling = 10
    /\ yoy_growth(probe.year) = F1_0

\* generate_sales_data is past the flush test that follows an append
AfterFlushTest == pc \in {"gsd_pair", "gsd_txn"}

GsdEnds ==
    /\ pc \in {"gsd_read", "gsd_pair", "gsd_txn", "gsd_flush"}
    /\ pc' \in {"gsd_return", "crashed"}

\* between the DELETE and the first commit the clearing is in the open
\* transaction only
ClearingPending ==
    (pc \in {"gsd_pair", "gsd_txn", "gsd_flush"} /\ flushes = <<>>) =>
        tx.open /\ tx.sales = <<>>

OneCommitAtEnd ==
    dimension_dates' # dimension_dates =>
        /\ pc = "gdd_loop" /\ pc' = "gdd_return"
        /\ ~DateLE(current_date, end_date)
        /\ tx.open /\ dimension_dates' = tx.dates
        /\ Len(dimension_dates') = RangeLen
        /\ "Date dimension generated successfully" \in printed'

\* generate_date_dimension ends before its commit
GddEndsEarly ==
    /\ pc \in {"gdd_delete", "gdd_loop"}
    /\ pc' \in {"gdd_return", "crashed"}
    /\ ~("Date dimension generated successfully" \in printed')

\* the stored calendar is the whole range or what the file held at first
WholeCalendarStored ==
    \/ dimension_dates = <<>>
    \/ dimension_dates = <<StaleDateRow>>
    \/ /\ Len(dimension_dates) = RangeLen
       /\ ParseDate(dimension_dates[1].full_date) = start_date
       /\ ParseDate(dimension_dates[Len(dimension_dates)].full_date) = end_date

\* C24: the Calendar Builder writes in one transaction.  The DELETE and all
\* the INSERTs are committed by the one commit after the loop; a failure
\* at any point before it leaves the stored date dimension as it was and
\* no transaction open; and storage never holds a proper prefix of the
\* range.
C24_CalendarSingleTransaction ==
    /\ []WholeCalendarStored
    /\ [][OneCommitAtEnd]_vars
    /\ [][GddEndsEarly =>
             /\ dimension_dates' = dimension_dates
             /\ tx' = NoTx]_vars

\* a second call failed and the calendar of the first call is still stored
C24_Witness ==
    /\ pc = "gdd_return"
    /\ runs = 2
    /\ "Error generating date dimension" \in printed
    /\ Len(dimension_dates) = RangeLen
    /\ RangeLen > 366
    /\ dimension_dates[1].date_id <= 2


(***************************************************************************)
(* C25: what a TemplateValidator has recorded only grows, and a report's   *)
(* status follows the errors list.                                         *)
(***************************************************************************)
IsPrefix(p, q) == Len(p) <= Len(q) /\ SubSeq(q, 1, Len(p)) = p

\* no call removes or changes an entry of the three lists
ResultsGrow ==
    /\ IsPrefix(validation_results.errors, validation_results'.errors)
    /\ IsPrefix(validation_results.data_source,
                validation_results'.data_source)
    /\ IsPrefix(validation_results.performance,
                validation_results'.performance)

DashboardNames == {Dashboards[i] : i \in 1..Len(Dashboards)}

Report(n) == templates[n].validation

\* PASS exactly when the errors list is empty: for a report taken now and
\* for every report a dashboard has stored
StatusFollowsErrors ==
    /\ get_validation_report(validation_results).status
           = (IF Len(validation_results.errors) = 0 THEN "PASS" ELSE "FAIL")
    /\ \A n \in DashboardNames :
          templates[n].created =>
             /\ Report(n).status \in {"PASS", "FAIL"}
             /\ Report(n).status = "PASS"
                    <=> Len(Report(n).results.errors) = 0

\* a report stored while the shared validator already holds an error is a
\* FAIL, and it starts with every data_source entry recorded before it
StoredAfterEarlierValidations ==
    \A n \in DashboardNames :
       templates'[n] # templates[n] =>
          /\ templates'[n].created
          /\ validation_results.errors # <<>>
                 => templates'[n].validation.status = "FAIL"
          /\ IsPrefix(validation_results.data_source,
                      templates'[n].validation.results.data_source)

\* among the stored reports, a later dashboard's report is a FAIL when an
\* earlier one is, and repeats the earlier one's data_source entries
LaterReportsCarryEarlier ==
    \A i, j \in 1..Len(Dashboards) :
       (i < j /\ templates[Dashboards[i]].created
              /\ templates[Dashboards[j]].created) =>
          /\ Report(Dashboards[i]).status = "FAIL"
                 => Report(Dashboards[j]).status = "FAIL"
          /\ IsPrefix(Report(Dashboards[i]).results.data_source,
                      Report(Dashboards[j]).results.data_source)

\* C25: validate_data_source, test_calculations and test_performance never
\* remove an entry of the errors list (nor of the data_source and
\* performance lists); get_validation_report gives PASS exactly when the
\* errors list is empty and FAIL otherwise; and with the one validator a
\* TemplateBuilder shares among its three dashboards, every report stored
\* after an error was recorded is a FAIL and every later report contains
\* the data_source entries of the dashboards validated before it.
C25_ValidatorStateOnlyGrows ==
    /\ []StatusFollowsErrors
    /\ []LaterReportsCarryEarlier
    /\ [][ResultsGrow]_vars
    /\ [][StoredAfterEarlierValidations]_vars

\* the sales dashboard's validation fails at its second table with an empty
\* error text; the product and regional validations succeed, and their
\* reports are FAIL with 4 and 7 data_source entries
C25_Witness ==
    /\ pc = "export_templates"
    /\ \A n \in DashboardNames : templates[n].created
    /\ Report("sales_dashboard").results.errors = <<"">>
    /\ Len(Report("sales_dashboard").results.data_source) = 1
    /\ Report("product_dashboard").status = "FAIL"
    /\ Len(Report("product_dashboard").results.data_source) = 4
    /\ Report("regional_dashboard").results.errors = <<"">>
    /\ Report("regional_dashboard").status = "FAIL"
    /\ Len(Report("regional_dashboard").results.data_source) = 7
    /\ Report("regional_dashboard").results.data_source[1].row_count = 1

====
